---- MODULE Spec2Model ----
(***************************************************************************)
(* State-machine model of the MonAI agent orchestration core:              *)
(*   src/src/ai/MonAIAgent.ts  (session, initialize, sendMessage, run      *)
(*                              driver, tool dispatch)                     *)
(*   src/src/tools/tools.ts    (process-wide tool registry)                *)
(*                                                                         *)
(* One step of the model is the code that runs between two awaits of one   *)
(* async call (JavaScript runs it without interleaving), or the arrival of *)
(* a remote response / the settling of a tool handler.                     *)
(***************************************************************************)
EXTENDS Naturals, Sequences, FiniteSets, TLC

(* ------------------------------ bounds -------------------------------- *)
\* calls (initialize / sendMessage) issued on the session
MaxCalls == 2
\* status re-fetches after which the remote run has left queued/in_progress
MaxPolls == 2
\* tool output submissions the remote run may still answer with requires_action
MaxRounds == 1
\* pending tool call requests in one required action
MaxToolCalls == 2
\* the same, in the session life cycle specification (Spec)
MaxSessionToolCalls == 1

(* --------------------------- JavaScript values ------------------------ *)
Null == "<null>"
Undefined == "<undefined>"

\* v || d  (only strings and undefined occur as v)
OrDefault(v, d) == IF v = Undefined \/ v = "" THEN d ELSE v

\* !v for the values the session tests: null objects and empty strings
Falsy(v) == v = Null \/ v = Undefined \/ v = ""

(* ------------------------------ inputs -------------------------------- *)
\* what the caller may pass as config.assistantId / config.threadId
ConfigAssistantIds == {Undefined, "asst_cfg"}
ConfigThreadIds == {Undefined, "thread_cfg"}

\* what the caller may pass as config.walletClient / config.toolEnvConfigs
ConfigWalletClients == {Undefined, "wallet_cfg"}
ConfigToolEnvConfigs == {Undefined, "env_cfg"}
\* createViemWalletClient() (utils 35-46), and the {} of line 34
DefaultWalletClient == "wallet_env"
EmptyToolEnvConfigs == "{}"

Slots == {"s1"}
Kinds == {"initialize", "sendMessage"}

\* identities the remote runtime hands out for the n-th resource this session creates
NewAssistantId(n) == "asst_new" \o ToString(n + 1)
NewThreadId(n) == "thread_new" \o ToString(n + 1)

\* a remote operation addressed by identity can only succeed for a non-empty identity
RemoteKnows(id) == id # "" /\ id # Undefined /\ id # Null

(* ------------------------ tools (tools.ts) ---------------------------- *)
\* tool objects: the two built in, and one an integrator registers
Tools == {"getBalanceTool", "getTokenBalanceTool", "customTool"}

\* the registry literal, tools.ts lines 46-55
toolRegistry == [n \in {"get_balance", "get_token_balance"} |->
                   IF n = "get_balance" THEN "getBalanceTool" ELSE "getTokenBalanceTool"]

\* properties every object literal inherits from Object.prototype
ObjectPrototypeKeys == {"constructor", "toString", "valueOf", "hasOwnProperty"}
Inherited(n) == "Object.prototype." \o n

\* reg[name] on a plain object: own property, else inherited property, else undefined
Lookup(reg, name) ==
  IF name \in DOMAIN reg THEN reg[name]
  ELSE IF name \in ObjectPrototypeKeys THEN Inherited(name)
  ELSE Undefined

\* registerTool(name, tool): toolRegistry[name] = tool
Registered(reg, name, tool) ==
  [n \in DOMAIN reg \cup {name} |-> IF n = name THEN tool ELSE reg[n]]

(* ------------------------------ state --------------------------------- *)
VARIABLES
  config,          \* the MonAIAgentConfig the session was constructed with
  assistant,       \* this.assistant: Null or the assistant's id
  thread,          \* this.thread: Null or the thread's id
  threadID,        \* this.threadID
  assistantId,     \* this.assistantId
  isInitialized,   \* this.isInitialized
  asstCreated,     \* remote: assistants created through this session
  threadsCreated,  \* remote: threads created through this session
  registry,        \* toolRegistry: own property name -> tool
  nCalls,          \* calls issued so far
  call,            \* per in-flight call: position and locals
  walletClient,    \* this.walletClient
  toolEnvConfigs,  \* this.toolEnvConfigs
  invocation,      \* one balance tool handler invocation: position and locals
  tokenDecimalsCache,  \* utils: token address -> decimals
  decimalsHistory  \* per token: decimals reads issued, reads rejected, values returned

session == <<assistant, thread, threadID, assistantId, isInitialized>>
remote == <<asstCreated, threadsCreated>>
chain == <<invocation, tokenDecimalsCache, decimalsHistory>>
context == <<walletClient, toolEnvConfigs>>
others == <<context, config, registry, assistant, thread, threadID, assistantId, isInitialized,
            asstCreated, threadsCreated, nCalls, chain>>
vars == <<context, config, assistant, thread, threadID, assistantId, isInitialized,
          asstCreated, threadsCreated, registry, nCalls, call, chain>>

NoOps == [asstRetrieve |-> 0, asstCreate |-> 0, threadCreate |-> 0,
          threadRetrieve |-> 0, msgCreate |-> 0, runCreate |-> 0, wait |-> 0,
          runRetrieve |-> 0, submit |-> 0, list |-> 0]

NoRun == [id |-> "", status |-> "none", action |-> "none", hasCalls |-> FALSE,
          calls |-> <<>>]

NoResult == [kind |-> "none"]

\* no handler invocation yet
IdleInvocation == [pc |-> "idle", name |-> "", wallet |-> Undefined, tokenName |-> Undefined,
                   account |-> Undefined, address |-> Undefined, token |-> Undefined,
                   raw |-> <<>>, reads |-> <<>>, outcome |-> [t |-> "none"], output |-> ""]

\* new Map()
EmptyCache == [a \in {} |-> 0]

\* nothing fetched yet
NoHistory == [reads |-> <<>>, failed |-> {}, returned |-> {}]

\* a call that has not started: pc is the await the call is suspended at
IdleCall == [pc |-> "idle", kind |-> "none", req |-> "", reqAsst |-> "",
             threadArg |-> Null, run |-> NoRun,
             results |-> <<>>, submitted |-> <<>>, roundLog |-> {},
             trace |-> <<>>, rounds |-> 0, ownKeys |-> {}, listedOk |-> FALSE,
             listed |-> <<>>, result |-> NoResult, ops |-> NoOps]

\* constructor
Init ==
  /\ config \in [assistantId : ConfigAssistantIds, threadId : ConfigThreadIds,
                  walletClient : {"wallet_cfg"}, toolEnvConfigs : {"env_cfg"}]
  /\ walletClient = OrDefault(config.walletClient, DefaultWalletClient)
  /\ toolEnvConfigs = OrDefault(config.toolEnvConfigs, EmptyToolEnvConfigs)
  /\ assistant = Null
  /\ thread = Null
  /\ isInitialized = FALSE
  /\ assistantId = OrDefault(config.assistantId, "")
  /\ threadID = OrDefault(config.threadId, "")
  /\ asstCreated = {}
  /\ threadsCreated = {}
  /\ registry = toolRegistry
  /\ nCalls = 0
  /\ call = [s \in Slots |-> IdleCall]
  /\ invocation = IdleInvocation
  /\ tokenDecimalsCache = EmptyCache
  /\ decimalsHistory = NoHistory

(* ------------------------------ results ------------------------------- *)
Void == [kind |-> "void"]
Text(t) == [kind |-> "text", value |-> t]
Failure(m) == [kind |-> "error", message |-> m]
RemoteError == "remote runtime error"
NotInitializedError == "MonAIAgent not initialized properly"

Bump(ops, f) == [ops EXCEPT ![f] = @ + 1]

Finish(cr, res) == [cr EXCEPT !.pc = "done", !.result = res]

(* ------------------------- initialize (43-70) ------------------------- *)
\* initialize() resolved; a sendMessage awaiting it resumes at line 80 in a later step
InitializeReturns(cr) ==
  IF cr.kind = "initialize" THEN Finish(cr, Void) ELSE [cr EXCEPT !.pc = "initialized"]

\* mutant of InitializeThrows: the rejection is swallowed and initialize() resolves
InitializeThrowsSwallowed(cr, m) ==
  IF cr.kind = "initialize" THEN Finish(cr, Void) ELSE [cr EXCEPT !.pc = "initialized"]

\* initialize() rejected; sendMessage does not catch, so its caller sees the failure
InitializeThrows(cr, m) == Finish(cr, Failure(m))

\* mutant of ResolveThread: the configured thread identity is ignored
ResolveThreadAlwaysCreates(cr) ==
  [cr EXCEPT !.pc = "createThread", !.req = "", !.ops = Bump(@, "threadCreate")]

\* lines 62-67 up to the await: create a thread, or retrieve the configured one
ResolveThread(cr) ==
  IF Falsy(threadID)
    THEN [cr EXCEPT !.pc = "createThread", !.req = "",
                    !.ops = Bump(@, "threadCreate")]
    ELSE [cr EXCEPT !.pc = "retrieveThread", !.req = threadID,
                    !.ops = Bump(@, "threadRetrieve")]

\* mutant of EnterInitialize: the guard of lines 44-47 is missing
EnterInitializeUnguarded(cr) ==
  IF Falsy(assistant)
    THEN [cr EXCEPT !.pc = "retrieveAssistant", !.req = assistantId,
                    !.ops = Bump(@, "asstRetrieve")]
    ELSE [cr EXCEPT !.pc = "createAssistant", !.req = "",
                    !.ops = Bump(@, "asstCreate")]

\* lines 44-60 up to the first await
EnterInitialize(cr) ==
  IF isInitialized
    THEN InitializeReturns([cr EXCEPT !.roundLog = @ \cup {<<"info", "Agent already initialized">>}])
    ELSE IF Falsy(assistant)
      THEN [cr EXCEPT !.pc = "retrieveAssistant", !.req = assistantId,
                      !.ops = Bump(@, "asstRetrieve")]
      ELSE [cr EXCEPT !.pc = "createAssistant", !.req = "",
                      !.ops = Bump(@, "asstCreate")]

\* mutant of AfterInitialize: the run is created without appending the user message
AfterInitializeSkipsAppend(cr) ==
  IF Falsy(assistant) \/ Falsy(thread)
    THEN Finish(cr, Failure(NotInitializedError))
    ELSE [cr EXCEPT !.pc = "createRun", !.req = threadID, !.reqAsst = assistantId,
                    !.ops = Bump(@, "runCreate")]

\* sendMessage lines 80-90 up to the await of messages.create
AfterInitialize(cr) ==
  IF Falsy(assistant) \/ Falsy(thread)
    THEN Finish(cr, Failure(NotInitializedError))
    ELSE [cr EXCEPT !.pc = "appendMessage", !.req = thread,
                    !.ops = Bump(@, "msgCreate")]

NoCallInFlight == \A t \in Slots : call[t].pc \in {"idle", "done"}

\* a caller invokes initialize()
StartInitialize(s) ==
  /\ NoCallInFlight
  /\ nCalls < MaxCalls
  /\ nCalls' = nCalls + 1
  /\ call' = [call EXCEPT ![s] = EnterInitialize([IdleCall EXCEPT !.kind = "initialize"])]
  /\ UNCHANGED <<chain, context, config, registry, session, remote>>

\* a caller invokes sendMessage(message): lines 75-78, then as far as the first await
StartSendMessage(s, counted) ==
  /\ NoCallInFlight
  /\ counted => nCalls < MaxCalls
  /\ nCalls' = IF counted THEN nCalls + 1 ELSE nCalls
  /\ LET cr == [IdleCall EXCEPT !.kind = "sendMessage"]
     IN call' = [call EXCEPT ![s] = IF ~isInitialized THEN EnterInitialize(cr)
                                                      ELSE AfterInitialize(cr)]
  /\ UNCHANGED <<chain, context, config, registry, session, remote>>

\* assistants.retrieve settles (line 52); a rejection is caught and falls back to create
RetrieveAssistantResponse(s) ==
  /\ call[s].pc = "retrieveAssistant"
  /\ \/ /\ RemoteKnows(call[s].req)
        /\ assistant' = call[s].req
        /\ call' = [call EXCEPT ![s] = ResolveThread(call[s])]
        /\ UNCHANGED <<chain, context, config, registry, thread, threadID, assistantId, isInitialized, remote, nCalls>>
     \/ /\ call' = [call EXCEPT ![s] = [call[s] EXCEPT !.pc = "createAssistant", !.req = "",
                                                        !.ops = Bump(@, "asstCreate")]]
        /\ UNCHANGED <<chain, context, config, registry, session, remote, nCalls>>

\* assistants.create settles (lines 54-55 and 58-59)
CreateAssistantResponse(s) ==
  /\ call[s].pc = "createAssistant"
  /\ \/ /\ LET id == NewAssistantId(Cardinality(asstCreated))
           IN /\ assistant' = id
              /\ assistantId' = id
              /\ asstCreated' = asstCreated \cup {id}
        /\ call' = [call EXCEPT ![s] = ResolveThread(call[s])]
        /\ UNCHANGED <<chain, context, config, registry, thread, threadID, isInitialized, threadsCreated, nCalls>>
     \/ /\ call' = [call EXCEPT ![s] = InitializeThrows(call[s], RemoteError)]
        /\ UNCHANGED <<chain, context, config, registry, session, remote, nCalls>>

\* threads.create settles (line 64), then line 69
CreateThreadResponse(s) ==
  /\ call[s].pc = "createThread"
  /\ \/ /\ LET id == NewThreadId(Cardinality(threadsCreated))
           IN /\ thread' = id
              /\ threadsCreated' = threadsCreated \cup {id}
        /\ isInitialized' = TRUE
        /\ call' = [call EXCEPT ![s] = InitializeReturns(call[s])]
        /\ UNCHANGED <<chain, context, config, registry, assistant, threadID, assistantId, asstCreated, nCalls>>
     \/ /\ call' = [call EXCEPT ![s] = InitializeThrows(call[s], RemoteError)]
        /\ UNCHANGED <<chain, context, config, registry, session, remote, nCalls>>

\* threads.retrieve settles (line 66), then line 69
RetrieveThreadResponse(s) ==
  /\ call[s].pc = "retrieveThread"
  /\ \/ /\ RemoteKnows(call[s].req)
        /\ thread' = call[s].req
        /\ isInitialized' = TRUE
        /\ call' = [call EXCEPT ![s] = InitializeReturns(call[s])]
        /\ UNCHANGED <<chain, context, config, registry, assistant, threadID, assistantId, remote, nCalls>>
     \/ /\ call' = [call EXCEPT ![s] = InitializeThrows(call[s], RemoteError)]
        /\ UNCHANGED <<chain, context, config, registry, session, remote, nCalls>>

\* sendMessage resumes after `await this.initialize()` (line 77)
ResumeSendMessage(s) ==
  /\ call[s].pc = "initialized"
  /\ call' = [call EXCEPT ![s] = AfterInitialize(call[s])]
  /\ UNCHANGED <<chain, context, config, registry, session, remote, nCalls>>

(* ------------------- values handlers return or throw ------------------ *)
Str(x) == [type |-> "string", s |-> x, n |-> 0]
Num(k) == [type |-> "number", s |-> "", n |-> k]
Undef == [type |-> "undefined", s |-> "", n |-> 0]
Err(m) == [type |-> "error", s |-> m, n |-> 0]

\* mutant of StringOf: the value is passed on unconverted where it is no string
StringOfUnconverted(v) ==
  IF v.type = "string" THEN v.s ELSE ""

\* String(v)
StringOf(v) ==
  CASE v.type = "string" -> v.s
    [] v.type = "number" -> ToString(v.n)
    [] v.type = "undefined" -> "undefined"
    [] v.type = "error" -> "Error: " \o v.s

\* what a handler invocation may do: resolve with a value, or reject with a thrown value
HandlerOutcomes ==
  {[t |-> "return", v |-> Str("1.5")], [t |-> "return", v |-> Num(15)],
   [t |-> "throw", v |-> Err("boom")], [t |-> "throw", v |-> Str("oops")]}
NoOutcome == [t |-> "none", v |-> Undef]

\* argument payloads the remote run may send, and JSON.parse on them
ArgPayloads == {"{}", "{\"wallet\":"}
JsonParseThrows(p) == p # "{}"
JsonSyntaxError == "Unexpected end of JSON input"
NotAFunction == "toolConfig.handler is not a function"

(* --------------------- what the remote run reports -------------------- *)
ToolNames == {"get_balance", "my_tool", "toString"}

\* call identities are not positions: the remote numbers the calls of a list downwards
CallIdAt(i, n) == "call_" \o ToString(n + 1 - i)

\* tool call lists of a required action: pairwise distinct call identities
ToolCallLists ==
  UNION {{[i \in 1..n |-> [id |-> CallIdAt(i, n), name |-> f[i][1],
                           arguments |-> f[i][2]]] :
            f \in [1..n -> ToolNames \X ArgPayloads]} :
         n \in 0..MaxToolCalls}


TransientStatuses == {"queued", "in_progress"}
TerminalStatuses == {"completed", "failed", "expired"}

RunWith(id, st) == [id |-> id, status |-> st, action |-> "none", hasCalls |-> FALSE,
                    calls |-> <<>>]

\* requires_action runs: a tool call list, or a required action without one
ActionRuns(id, lists) ==
  {[id |-> id, status |-> "requires_action", action |-> "submit_tool_outputs",
    hasCalls |-> TRUE, calls |-> l] : l \in lists}
  \cup {[id |-> id, status |-> "requires_action", action |-> "submit_tool_outputs",
         hasCalls |-> FALSE, calls |-> <<>>]}

\* what the k-th runs.retrieve of a run last seen as cur may report
RetrievedRuns(cur, k, lists) ==
  {RunWith(cur.id, st) : st \in (IF k < MaxPolls
                                   THEN (IF cur.status = "queued" THEN TransientStatuses
                                                                  ELSE {"in_progress"})
                                   ELSE {}) \cup TerminalStatuses}
  \cup ActionRuns(cur.id, lists)

\* what submitToolOutputsAndPoll may report after r earlier submissions
SubmittedRuns(cur, r, lists) ==
  {RunWith(cur.id, st) : st \in TerminalStatuses}
  \cup (IF r < MaxRounds THEN ActionRuns(cur.id, lists) ELSE {})

TextBlock(t) == [type |-> "text", value |-> t]
ImageBlock == [type |-> "image_file", value |-> ""]
NullBlock == [type |-> Null, value |-> ""]
Msg(role, content) == [role |-> role, content |-> content]

\* messages.list responses (most recent first)
MessageLists ==
  {<<>>,
   <<Msg("assistant", <<TextBlock("Your balance is 1.5 MON")>>),
     Msg("user", <<TextBlock("what's my balance?")>>)>>,
   <<Msg("assistant", <<TextBlock("ok"), TextBlock("more")>>)>>,
   <<Msg("assistant", <<ImageBlock, TextBlock("caption")>>)>>,
   <<Msg("user", <<TextBlock("what's my balance?")>>),
     Msg("assistant", <<TextBlock("earlier answer")>>)>>,
   <<Msg("assistant", <<>>)>>}

(* ----------------------- createRun (148-162) -------------------------- *)
FormatError == "Unexpected response format"
TypeErrorReading(p) == "Cannot read properties of undefined (reading '" \o p \o "')"

\* mutant of PollLoop: the re-fetch is not preceded by the wait of line 157
PollLoopWithoutWait(cr) ==
  IF cr.run.status \in TransientStatuses
    THEN [cr EXCEPT !.pc = "pollWait"]
    ELSE [cr EXCEPT !.pc = "createRunReturned"]

\* lines 156-161: wait while the run is queued or in progress, else return the run
PollLoop(cr) ==
  IF cr.run.status \in TransientStatuses
    THEN [cr EXCEPT !.pc = "pollWait", !.ops = Bump(@, "wait")]
    ELSE [cr EXCEPT !.pc = "createRunReturned"]

\* messages.create settles (87-90); then createRun as far as runs.create (149-153)
AppendMessageResponse(s) ==
  /\ call[s].pc = "appendMessage"
  /\ \/ /\ RemoteKnows(call[s].req)
        /\ call' = [call EXCEPT ![s] = [call[s] EXCEPT !.pc = "createRun",
                                          !.req = threadID, !.reqAsst = assistantId,
                                          !.ops = Bump(@, "runCreate")]]
     \/ call' = [call EXCEPT ![s] = Finish(call[s], Failure(RemoteError))]
  /\ UNCHANGED others

\* runs.create settles (151): a new run starts queued
CreateRunResponse(s) ==
  /\ call[s].pc = "createRun"
  /\ \/ /\ RemoteKnows(call[s].req) /\ RemoteKnows(call[s].reqAsst)
        /\ LET run == RunWith("run_" \o ToString(nCalls), "queued")
           IN call' = [call EXCEPT ![s] = PollLoop([call[s] EXCEPT !.run = run,
                                                      !.trace = <<run.status>>])]
     \/ call' = [call EXCEPT ![s] = Finish(call[s], Failure(RemoteError))]
  /\ UNCHANGED others

\* the 1000 ms timer fires (157); runs.retrieve is issued (158)
PollTimerFires(s) ==
  /\ call[s].pc = "pollWait"
  /\ call' = [call EXCEPT ![s] = [call[s] EXCEPT !.pc = "retrieveRun", !.req = threadID,
                                                 !.ops = Bump(@, "runRetrieve")]]
  /\ UNCHANGED others

\* runs.retrieve settles (158)
RetrieveRunResponse(s, lists) ==
  /\ call[s].pc = "retrieveRun"
  /\ \/ /\ RemoteKnows(call[s].req)
        /\ \E run \in RetrievedRuns(call[s].run, call[s].ops.runRetrieve, lists) :
             call' = [call EXCEPT ![s] = PollLoop([call[s] EXCEPT !.run = run,
                                                     !.trace = Append(@, run.status)])]
     \/ call' = [call EXCEPT ![s] = Finish(call[s], Failure(RemoteError))]
  /\ UNCHANGED others

\* sendMessage resumes after `await this.createRun()` and calls performRun (93)
StartPerformRun(s) ==
  /\ call[s].pc = "createRunReturned"
  /\ call' = [call EXCEPT ![s] = [call[s] EXCEPT !.pc = "performRun", !.threadArg = thread]]
  /\ UNCHANGED others

(* ------------------- handleRunToolCalls (167-215) ---------------------- *)
\* received: the second and third argument a handler was invoked with
NotInvoked == <<>>
NoValue(tc) == [status |-> "fulfilled", hasValue |-> FALSE, tool_call_id |-> "",
                output |-> "", handler |-> "none", outcome |-> NoOutcome,
                received |-> NotInvoked]
Fulfilled(id, out, h, o) == [status |-> "fulfilled", hasValue |-> TRUE, tool_call_id |-> id,
                             output |-> out, handler |-> h, outcome |-> o,
                             received |-> NotInvoked]

\* mutant of Pending: the handler is invoked with the parsed arguments only
PendingWithoutContext(h) ==
  [status |-> "pending", hasValue |-> FALSE, tool_call_id |-> "",
   output |-> "", handler |-> h, outcome |-> NoOutcome,
   received |-> <<Undefined, Undefined>>]

\* line 184: toolConfig.handler(args, this.walletClient, this.toolEnvConfigs) is awaited
Pending(h) == [status |-> "pending", hasValue |-> FALSE, tool_call_id |-> "",
               output |-> "", handler |-> h, outcome |-> NoOutcome,
               received |-> <<walletClient, toolEnvConfigs>>]

\* line 190
ErrorMessage(e) == IF e.type = "error" THEN e.s ELSE StringOf(e)
\* line 193
ErrorOutput(e) == "Error: " \o ErrorMessage(e)

\* mutant of InvokeToolCall: the not-found check of lines 177-180 is missing
InvokeToolCallUnchecked(reg, tc) ==
  LET toolConfig == Lookup(reg, tc.name)
  IN IF JsonParseThrows(tc.arguments)
       THEN Fulfilled(tc.id, ErrorOutput(Err(JsonSyntaxError)), "none", NoOutcome)
     ELSE IF Falsy(toolConfig)
       THEN Fulfilled(tc.id, ErrorOutput(Err(TypeErrorReading("handler"))), "none", NoOutcome)
     ELSE IF toolConfig \notin Tools
       THEN Fulfilled(tc.id, ErrorOutput(Err(NotAFunction)), "none", NoOutcome)
     ELSE Pending(toolConfig)

\* lines 176-184: one mapped tool call, as far as its handler is invoked
InvokeToolCall(reg, tc) ==
  LET toolConfig == Lookup(reg, tc.name)
  IN IF Falsy(toolConfig) THEN NoValue(tc)
     ELSE IF JsonParseThrows(tc.arguments)
       THEN Fulfilled(tc.id, ErrorOutput(Err(JsonSyntaxError)), "none", NoOutcome)
     ELSE IF toolConfig \notin Tools
       THEN Fulfilled(tc.id, ErrorOutput(Err(NotAFunction)), "none", NoOutcome)
     ELSE Pending(toolConfig)

\* line 178
NotFoundLog(name) == <<"error", "Tool " \o name \o " not found">>
LookupLogs(reg, calls) ==
  {NotFoundLog(calls[i].name) : i \in {j \in 1..Len(calls) : Falsy(Lookup(reg, calls[j].name))}}

\* mutant of Settled: no try/catch around the handler, a throw rejects the mapped promise
SettledUncaught(tc, slot, o) ==
  IF o.t = "return"
    THEN [Fulfilled(tc.id, StringOf(o.v), slot.handler, o) EXCEPT !.received = slot.received]
    ELSE [status |-> "rejected", hasValue |-> FALSE, tool_call_id |-> "", output |-> "",
          handler |-> slot.handler, outcome |-> o, received |-> slot.received]

\* lines 184-195: the handler of a pending call has settled with outcome o
Settled(tc, slot, o) ==
  [Fulfilled(tc.id, IF o.t = "return" THEN StringOf(o.v) ELSE ErrorOutput(o.v),
             slot.handler, o) EXCEPT !.received = slot.received]

HasOutput(r) == r.status = "fulfilled" /\ r.hasValue

\* mutant of CollectOutputs: line 200 without `&& result.value`
CollectOutputsUnfiltered(results) ==
  [i \in 1..Len(results) |-> [tool_call_id |-> results[i].tool_call_id,
                              output |-> results[i].output]]

\* lines 199-205
CollectOutputs(results) ==
  LET kept == SelectSeq(results, HasOutput)
  IN [i \in 1..Len(kept) |-> [tool_call_id |-> kept[i].tool_call_id,
                             output |-> kept[i].output]]

\* lines 168-197 as far as `await Promise.allSettled`
StartDispatch(reg, cr) ==
  LET toolCalls == cr.run.calls
  IN IF ~cr.run.hasCalls \/ Len(toolCalls) = 0
       THEN [cr EXCEPT !.pc = "dispatchReturned", !.results = <<>>, !.submitted = <<>>,
                       !.roundLog = {}]
       ELSE [cr EXCEPT !.pc = "allSettled", !.ownKeys = DOMAIN reg,
                       !.results = [i \in 1..Len(toolCalls) |-> InvokeToolCall(reg, toolCalls[i])],
                       !.submitted = <<>>,
                       !.roundLog = LookupLogs(reg, toolCalls)]

\* mutant of PerformLoop: the messages are listed whatever the final status is
PerformLoopAlwaysLists(reg, cr) ==
  IF cr.run.status = "requires_action" /\ cr.run.action = "submit_tool_outputs"
    THEN StartDispatch(reg, cr)
    ELSE [cr EXCEPT !.pc = "listMessages", !.req = cr.threadArg, !.ops = Bump(@, "list")]

\* lines 226-245 as far as the next await, and sendMessage's lines 95-99 for a null result
PerformLoop(reg, cr) ==
  IF cr.run.status = "requires_action" /\ cr.run.action = "submit_tool_outputs"
    THEN StartDispatch(reg, cr)
  ELSE IF cr.run.status = "completed"
    THEN [cr EXCEPT !.pc = "listMessages", !.req = cr.threadArg, !.ops = Bump(@, "list")]
  ELSE Finish(cr, Failure(FormatError))

\* the while condition of performRun is evaluated (226-231)
EvaluateRun(s) ==
  /\ call[s].pc = "performRun"
  /\ call' = [call EXCEPT ![s] = PerformLoop(registry, call[s])]
  /\ UNCHANGED others

\* one pending handler settles, in any order
\* mutant of HandlerSettles: the tool is looked up when its call settles, not at line 176
HandlerSettlesLateLookup(s) ==
  /\ call[s].pc = "allSettled"
  /\ \E i \in 1..Len(call[s].results) :
       /\ call[s].results[i].status = "pending"
       /\ \E o \in HandlerOutcomes :
            call' = [call EXCEPT ![s].results[i] =
                       Settled(call[s].run.calls[i],
                               [@ EXCEPT !.handler = Lookup(registry, call[s].run.calls[i].name)],
                               o)]
  /\ UNCHANGED others

HandlerSettles(s) ==
  /\ call[s].pc = "allSettled"
  /\ \E i \in 1..Len(call[s].results) :
       /\ call[s].results[i].status = "pending"
       /\ \E o \in HandlerOutcomes :
            call' = [call EXCEPT ![s].results[i] = Settled(call[s].run.calls[i], @, o)]
  /\ UNCHANGED others

NoValidOutputsLog(id) == <<"info", "No valid tool outputs to submit for run " \o id>>

\* mutant of CollectAndSubmit: the outputs are collected when the first handler settles
CollectAndSubmitFirstSettled(s) ==
  /\ call[s].pc = "allSettled"
  /\ \E i \in 1..Len(call[s].results) : call[s].results[i].status # "pending"
  /\ LET toolOutputs == CollectOutputs(call[s].results)
     IN call' = [call EXCEPT ![s] =
          IF Len(toolOutputs) = 0
            THEN [call[s] EXCEPT !.pc = "dispatchReturned",
                                 !.roundLog = @ \cup {NoValidOutputsLog(call[s].run.id)}]
            ELSE [call[s] EXCEPT !.pc = "submitToolOutputs", !.req = call[s].threadArg,
                                 !.submitted = toolOutputs, !.ops = Bump(@, "submit")]]
  /\ UNCHANGED others

\* Promise.allSettled resolves (174); lines 199-214
CollectAndSubmit(s) ==
  /\ call[s].pc = "allSettled"
  /\ \A i \in 1..Len(call[s].results) : call[s].results[i].status # "pending"
  /\ LET toolOutputs == CollectOutputs(call[s].results)
     IN call' = [call EXCEPT ![s] =
          IF Len(toolOutputs) = 0
            THEN [call[s] EXCEPT !.pc = "dispatchReturned",
                                 !.roundLog = @ \cup {NoValidOutputsLog(call[s].run.id)}]
            ELSE [call[s] EXCEPT !.pc = "submitToolOutputs", !.req = call[s].threadArg,
                                 !.submitted = toolOutputs, !.ops = Bump(@, "submit")]]
  /\ UNCHANGED others

\* submitToolOutputsAndPoll (212), first half: the submission request settles
SubmitAccepted(s) ==
  /\ call[s].pc = "submitToolOutputs"
  /\ \/ /\ RemoteKnows(call[s].req)
        /\ call' = [call EXCEPT ![s] = [call[s] EXCEPT !.pc = "submitPoll",
                                          !.results = <<>>, !.submitted = <<>>,
                                          !.roundLog = {}]]
     \/ call' = [call EXCEPT ![s] = Finish(call[s], Failure(RemoteError))]
  /\ UNCHANGED others

\* submitToolOutputsAndPoll (212), second half: its polling ends and the run is returned
SubmitResponse(s, lists) ==
  /\ call[s].pc = "submitPoll"
  /\ \/ \E run \in SubmittedRuns(call[s].run, call[s].rounds, lists) :
          call' = [call EXCEPT ![s] = [call[s] EXCEPT !.pc = "dispatchReturned",
                                         !.run = run, !.rounds = @ + 1]]
     \/ call' = [call EXCEPT ![s] = Finish(call[s], Failure(RemoteError))]
  /\ UNCHANGED others

\* performRun resumes after `await this.handleRunToolCalls(...)` (230)
DispatchReturned(s) ==
  /\ call[s].pc = "dispatchReturned"
  /\ call' = [call EXCEPT ![s] = [call[s] EXCEPT !.pc = "performRun"]]
  /\ UNCHANGED others

(* -------------- performRun 233-245, sendMessage 95-99 ----------------- *)
\* lines 236-245 on the listed messages
ExtractAnswer(data) ==
  IF Len(data) = 0
    THEN [threw |-> TRUE, message |-> TypeErrorReading("role"), block |-> NullBlock]
  ELSE IF data[1].role # "assistant"
    THEN [threw |-> FALSE, message |-> "", block |-> NullBlock]
  ELSE IF Len(data[1].content) = 0
    THEN [threw |-> TRUE, message |-> TypeErrorReading("type"), block |-> NullBlock]
  ELSE IF data[1].content[1].type = "text"
    THEN [threw |-> FALSE, message |-> "", block |-> data[1].content[1]]
  ELSE [threw |-> FALSE, message |-> "", block |-> NullBlock]

\* lines 95-99
SendMessageOutcome(x) ==
  IF x.threw THEN Failure(x.message)
  ELSE IF x.block.type = "text" THEN Text(x.block.value)
  ELSE Failure(FormatError)

\* messages.list settles (235)
ListResponse(s) ==
  /\ call[s].pc = "listMessages"
  /\ \/ /\ RemoteKnows(call[s].req)
        /\ \E data \in MessageLists :
             call' = [call EXCEPT ![s] = [Finish(call[s], SendMessageOutcome(ExtractAnswer(data)))
                                            EXCEPT !.listed = data, !.listedOk = TRUE]]
     \/ call' = [call EXCEPT ![s] = Finish(call[s], Failure(RemoteError))]
  /\ UNCHANGED others

(* --------------------------- registerTool ----------------------------- *)
\* registerTool(name, tool), tools.ts 72-77
RegisterTool ==
  /\ \E name \in {"my_tool"}, tool \in {"customTool"} :
       /\ Lookup(registry, name) # tool
       /\ registry' = Registered(registry, name, tool)
  /\ UNCHANGED <<chain, context, config, session, remote, nCalls, call>>

\* registerTool(name, tool) for a name already registered: line 76 overwrites the entry
OverwriteTool ==
  /\ \E name \in {"get_balance"}, tool \in {"customTool"} :
       /\ name \in DOMAIN registry
       /\ Lookup(registry, name) # tool
       /\ registry' = Registered(registry, name, tool)
  /\ UNCHANGED <<chain, context, config, session, remote, nCalls, call>>

(* ----------------------- registry operations -------------------------- *)
\* names an integrator may pass to registerTool / getTool
RegistryNames == {"get_balance", "my_tool", "toString", "other_tool"}

\* getTool(name), tools.ts 85-89: toolRegistry[name]
getTool(name) == Lookup(registry, name)

\* initTools(), tools.ts 62-64: the registry object itself
initTools == registry

\* registerTool(name, tool) for any name and tool, overwriting included
RegisterAnyTool ==
  /\ \E name \in RegistryNames, tool \in Tools :
       registry' = Registered(registry, name, tool)
  /\ UNCHANGED <<chain, context, config, session, remote, nCalls, call>>

\* tool.definition.function.name: the name a tool declares (getBalance.ts 28,
\* getTokenBalance 36); the integrator's tool declares my_tool
DefinitionName(tool) ==
  CASE tool = "getBalanceTool" -> "get_balance"
    [] tool = "getTokenBalanceTool" -> "get_token_balance"
    [] tool = "customTool" -> "my_tool"

\* createAssistant line 113: the names in Object.values(tools).map(tool => tool.definition)
DeclaredNames(reg) == {DefinitionName(reg[k]) : k \in DOMAIN reg}

(* ------------------- balance tool handlers ---------------------------- *)
\* constants/index: the token table, in key order
TokenKeys == <<"WMON", "MONAI">>
TOKEN == [k \in {"WMON", "MONAI"} |-> IF k = "WMON" THEN "0x760AfE86e5de5fa0Ee542fc7B7B713e1c5425701"
                                      ELSE "0x7348fac1b35be27b0b636f0881afc9449ec54ba5"]

\* String.prototype.toLowerCase on the names that occur
ToLowerCase(x) ==
  CASE x = "WMON" -> "wmon"
    [] x = "MONAI" -> "monai"
    [] OTHER -> x

\* Object.keys(TOKEN).join(', ')
RECURSIVE JoinKeys(_)
JoinKeys(ks) ==
  IF Len(ks) = 0 THEN ""
  ELSE IF Len(ks) = 1 THEN ks[1]
  ELSE ks[1] \o ", " \o JoinKeys(Tail(ks))

\* Object.keys(TOKEN).find(key => key.toLowerCase() === tokenName.toLowerCase())
RECURSIVE FindKey(_, _)
FindKey(ks, tokenName) ==
  IF Len(ks) = 0 THEN Undefined
  ELSE IF ToLowerCase(ks[1]) = ToLowerCase(tokenName) THEN ks[1]
  ELSE FindKey(Tail(ks), tokenName)

\* what the dispatcher passes: parsed arguments and the session wallet's account address
WalletArgs == {Undefined, "0xA11CE"}
TokenNameArgs == {Undefined, "WMON", "monai", "unknown"}
AccountAddresses == {Undefined, "0x5E55"}

\* what the chain answers: balances as decimal digits (bigint), decimals as numbers
RawBalances == {<<0>>, <<1, 5, 0, 0>>}
DecimalsValues == {3, 18}
RpcError == "rpc request failed"

NoWalletError == "No wallet address provided and no wallet client account available"
TokenNameRequired == "Token name is required"
TokenNotFound(tokenName) ==
  "Token \"" \o tokenName \o "\" not found. Available tokens: " \o JoinKeys(TokenKeys)

\* the catch blocks: throw new Error(`Failed to get ...: ${error}`)
GetBalanceFailure(e) == Err("Failed to get balance: " \o StringOf(e))
GetTokenBalanceFailure(e) == Err("Failed to get token balance: " \o StringOf(e))

\* viem formatUnits(value, decimals) on the decimal digits of value
RECURSIVE PadStart(_, _)
PadStart(ds, n) == IF Len(ds) >= n THEN ds ELSE PadStart(<<0>> \o ds, n)
RECURSIVE StripTrailingZeros(_)
StripTrailingZeros(ds) ==
  IF Len(ds) = 0 THEN ds
  ELSE IF ds[Len(ds)] = 0 THEN StripTrailingZeros(SubSeq(ds, 1, Len(ds) - 1))
  ELSE ds
RECURSIVE DigitString(_)
DigitString(ds) == IF Len(ds) = 0 THEN "" ELSE ToString(ds[1]) \o DigitString(Tail(ds))
FormatUnits(ds, decimals) ==
  LET display == PadStart(ds, decimals)
      integer == SubSeq(display, 1, Len(display) - decimals)
      fraction == StripTrailingZeros(SubSeq(display, Len(display) - decimals + 1, Len(display)))
  IN (IF Len(integer) = 0 THEN "0" ELSE DigitString(integer))
     \o (IF Len(fraction) = 0 THEN "" ELSE "." \o DigitString(fraction))

\* viem formatEther
FormatEther(ds) == FormatUnits(ds, 18)

\* the handler's promise settles and the dispatcher converts it (MonAIAgent.ts 184-195)
HandlerSettled(t, o) ==
  [t EXCEPT !.pc = "done", !.outcome = o,
            !.output = Settled([id |-> "call_1", name |-> t.name, arguments |-> "{}"],
                               Pending(t.name), o).output]
HandlerReturns(t, v) == HandlerSettled(t, [t |-> "return", v |-> v])
HandlerThrows(t, e) == HandlerSettled(t, [t |-> "throw", v |-> e])

\* fetchTokenDecimals returns decimals (utils 66, 86)
FetchReturns(t, decimals) ==
  [t EXCEPT !.pc = "done", !.outcome = [t |-> "return", v |-> Num(decimals)],
            !.output = ToString(decimals)]

\* what the calls of fetchTokenDecimals did so far: a decimals read was issued for token,
\* the read for token was rejected, a call for token returned decimals
LogRead(h, token) == [h EXCEPT !.reads = Append(@, token)]
LogFailed(h, token) == [h EXCEPT !.failed = @ \cup {token}]
LogReturn(h, token, decimals) == [h EXCEPT !.returned = @ \cup {<<token, decimals>>}]

\* a blockchain read is issued
IssueRead(t, op, target) ==
  [t EXCEPT !.pc = op, !.reads = Append(@, [op |-> op, target |-> target])]

\* mutant of GetBalanceStart: the session account is preferred to the explicit wallet
GetBalanceStartAccountFirst(t) ==
  LET address == OrDefault(t.account, t.wallet)
  IN IF Falsy(address)
       THEN HandlerThrows(t, GetBalanceFailure(Err(NoWalletError)))
       ELSE IssueRead([t EXCEPT !.address = address], "getBalance", address)

\* getBalance.ts 45-56: as far as the await of publicClient.getBalance
GetBalanceStart(t) ==
  LET address == OrDefault(t.wallet, t.account)
  IN IF Falsy(address)
       THEN HandlerThrows(t, GetBalanceFailure(Err(NoWalletError)))
       ELSE IssueRead([t EXCEPT !.address = address], "getBalance", address)

\* getTokenBalance 57-97: as far as the await of publicClient.readContract(balanceOf)
GetTokenBalanceStart(t) ==
  LET address == OrDefault(t.wallet, t.account)
      foundTokenName == FindKey(TokenKeys, t.tokenName)
  IN IF Falsy(address)
       THEN HandlerThrows(t, GetTokenBalanceFailure(Err(NoWalletError)))
     ELSE IF Falsy(t.tokenName)
       THEN HandlerThrows(t, GetTokenBalanceFailure(Err(TokenNameRequired)))
     ELSE IF Falsy(foundTokenName)
       THEN HandlerThrows(t, GetTokenBalanceFailure(Err(TokenNotFound(t.tokenName))))
     ELSE IssueRead([t EXCEPT !.address = address, !.token = TOKEN[foundTokenName]],
                    "balanceOf", address)

\* the dispatcher invokes a balance tool handler (MonAIAgent.ts 184)
InvokeHandler ==
  /\ invocation.pc \in {"idle", "done"}
  /\ \E name \in {"get_balance", "get_token_balance"}, wallet \in WalletArgs,
        tokenName \in TokenNameArgs, account \in AccountAddresses :
       /\ name = "get_balance" => tokenName = Undefined
       /\ LET t == [IdleInvocation EXCEPT !.name = name, !.wallet = wallet,
                                          !.tokenName = tokenName, !.account = account]
          IN invocation' = IF name = "get_balance" THEN GetBalanceStart(t)
                                                  ELSE GetTokenBalanceStart(t)
  /\ UNCHANGED <<tokenDecimalsCache, decimalsHistory, context, config, registry, session, remote, nCalls, call>>

\* publicClient.getBalance settles (getBalance.ts 56-64)
GetBalanceResponse ==
  /\ invocation.pc = "getBalance"
  /\ \/ \E balance \in RawBalances :
          invocation' = HandlerReturns([invocation EXCEPT !.raw = balance],
                                       Str(FormatEther(balance)))
     \/ invocation' = HandlerThrows(invocation, GetBalanceFailure(Err(RpcError)))
  /\ UNCHANGED <<tokenDecimalsCache, decimalsHistory, context, config, registry, session, remote, nCalls, call>>

\* readContract(balanceOf) settles (92-97); fetchTokenDecimals as far as its await
\* (utils 65-77), or to the end when the decimals are cached (86, 103)
BalanceOfResponse ==
  /\ invocation.pc = "balanceOf"
  /\ \/ \E balance \in RawBalances :
          LET t == [invocation EXCEPT !.raw = balance]
          IN IF t.token \in DOMAIN tokenDecimalsCache
               THEN /\ invocation' = HandlerReturns(t, Str(FormatUnits(balance,
                                                        tokenDecimalsCache[t.token])))
                    /\ decimalsHistory' = LogReturn(decimalsHistory, t.token,
                                                    tokenDecimalsCache[t.token])
               ELSE /\ invocation' = IssueRead(t, "decimals", t.token)
                    /\ decimalsHistory' = LogRead(decimalsHistory, t.token)
     \/ /\ invocation' = HandlerThrows(invocation, GetTokenBalanceFailure(Err(RpcError)))
        /\ UNCHANGED decimalsHistory
  /\ UNCHANGED <<tokenDecimalsCache, context, config, registry, session, remote, nCalls, call>>

\* tokenDecimalsCache.set(token, decimals)
CacheSet(cache, token, decimals) ==
  [a \in DOMAIN cache \cup {token} |-> IF a = token THEN decimals ELSE cache[a]]

\* utils 86, and for the token balance handler formatUnits (103) and its return
DecimalsReturned(t, cache) ==
  IF t.name = "fetchTokenDecimals"
    THEN FetchReturns(t, cache[t.token])
    ELSE HandlerReturns(t, Str(FormatUnits(t.raw, cache[t.token])))

\* readContract(decimals) settles with a value, or rejects and 18 is cached
\* (utils 72-86); then the return
DecimalsResponse ==
  /\ invocation.pc = "decimals"
  /\ \/ \E d \in DecimalsValues :
          LET cache == CacheSet(tokenDecimalsCache, invocation.token, d)
          IN /\ tokenDecimalsCache' = cache
             /\ invocation' = DecimalsReturned(invocation, cache)
             /\ decimalsHistory' = LogReturn(decimalsHistory, invocation.token,
                                             cache[invocation.token])
     \/ LET cache == CacheSet(tokenDecimalsCache, invocation.token, 18)
        IN /\ tokenDecimalsCache' = cache
           /\ invocation' = DecimalsReturned(invocation, cache)
           /\ decimalsHistory' = LogReturn(LogFailed(decimalsHistory, invocation.token),
                                           invocation.token, cache[invocation.token])
  /\ UNCHANGED <<context, config, registry, session, remote, nCalls, call>>

\* viem's zeroAddress, and the tokens fetchTokenDecimals may be called for
ZeroAddress == "0x0000000000000000000000000000000000000000"
FetchTokens == {Undefined, ZeroAddress} \cup {TOKEN[k] : k \in DOMAIN TOKEN}

\* utils 65: native tokens
IsNative(token) == Falsy(token) \/ token = ZeroAddress

\* mutant of CacheHas: the cache is never consulted
CacheHasNever(cache, token) == FALSE

\* utils 70: tokenDecimalsCache.has(token)
CacheHas(cache, token) == token \in DOMAIN cache

\* fetchTokenDecimals(walletClient, token) is called (utils 60-77) while no other call
\* is in flight: it returns at once, or awaits the decimals read
FetchTokenDecimals ==
  /\ invocation.pc \in {"idle", "done"}
  /\ \E token \in FetchTokens :
       LET t == [IdleInvocation EXCEPT !.name = "fetchTokenDecimals", !.token = token]
       IN IF IsNative(token)
            THEN /\ invocation' = FetchReturns(t, 18)
                 /\ decimalsHistory' = LogReturn(decimalsHistory, token, 18)
          ELSE IF CacheHas(tokenDecimalsCache, token)
            THEN /\ invocation' = FetchReturns(t, tokenDecimalsCache[token])
                 /\ decimalsHistory' = LogReturn(decimalsHistory, token,
                                                 tokenDecimalsCache[token])
          ELSE /\ invocation' = IssueRead(t, "decimals", token)
               /\ decimalsHistory' = LogRead(decimalsHistory, token)
  /\ UNCHANGED <<tokenDecimalsCache, context, config, registry, session, remote, nCalls, call>>

(* ------------------------------ next ---------------------------------- *)
\* steps of initialize()
InitStep(s) ==
  \/ RetrieveAssistantResponse(s)
  \/ CreateAssistantResponse(s)
  \/ CreateThreadResponse(s)
  \/ RetrieveThreadResponse(s)
  \/ ResumeSendMessage(s)

\* steps of sendMessage() from line 87 on
RunStep(s, lists) ==
  \/ AppendMessageResponse(s)
  \/ CreateRunResponse(s)
  \/ PollTimerFires(s)
  \/ RetrieveRunResponse(s, lists)
  \/ StartPerformRun(s)
  \/ EvaluateRun(s)
  \/ HandlerSettles(s)
  \/ CollectAndSubmit(s)
  \/ SubmitAccepted(s)
  \/ SubmitResponse(s, lists)
  \/ DispatchReturned(s)
  \/ ListResponse(s)

\* the session life cycle: every configuration, both operations, short tool call lists
SessionLists == {l \in ToolCallLists : Len(l) <= MaxSessionToolCalls}

Next ==
  \/ \E s \in Slots : StartInitialize(s)
  \/ \E s \in Slots : StartSendMessage(s, TRUE)
  \/ \E s \in Slots : InitStep(s)
  \/ \E s \in Slots : RunStep(s, SessionLists)
  \/ RegisterTool

Spec == Init /\ [][Next]_vars

\* the run driver: any number of successive sendMessage calls on a session that
\* initialize() has completed for (both identities supplied), every tool call list
RunInit ==
  /\ config = [assistantId |-> "asst_cfg", threadId |-> "thread_cfg",
               walletClient |-> "wallet_cfg", toolEnvConfigs |-> "env_cfg"]
  /\ walletClient = OrDefault(config.walletClient, DefaultWalletClient)
  /\ toolEnvConfigs = OrDefault(config.toolEnvConfigs, EmptyToolEnvConfigs)
  /\ assistant = config.assistantId
  /\ assistantId = config.assistantId
  /\ thread = config.threadId
  /\ threadID = config.threadId
  /\ isInitialized = TRUE
  /\ asstCreated = {}
  /\ threadsCreated = {}
  /\ registry = toolRegistry
  /\ nCalls = 0
  /\ call = [s \in Slots |-> IdleCall]
  /\ invocation = IdleInvocation
  /\ tokenDecimalsCache = EmptyCache
  /\ decimalsHistory = NoHistory

RunNext ==
  \/ \E s \in Slots : StartSendMessage(s, FALSE)
  \/ \E s \in Slots : RunStep(s, ToolCallLists)
  \/ RegisterTool
  \/ OverwriteTool

RunSpec == RunInit /\ [][RunNext]_vars

\* interleaved calls on one session: a call may start while another is suspended at an
\* await; each call is followed through initialize() and as far as its messages.create
ConcurrentSlots == {"s1", "s2"}

\* initialize() is invoked, whatever other calls are in flight
InvokeInitialize(s) ==
  /\ call[s].pc \in {"idle", "done"}
  /\ nCalls < MaxCalls
  /\ nCalls' = nCalls + 1
  /\ call' = [call EXCEPT ![s] = EnterInitialize([IdleCall EXCEPT !.kind = "initialize"])]
  /\ UNCHANGED <<chain, context, config, registry, session, remote>>

\* sendMessage() is invoked, whatever other calls are in flight
InvokeSendMessage(s) ==
  /\ call[s].pc \in {"idle", "done"}
  /\ nCalls < MaxCalls
  /\ nCalls' = nCalls + 1
  /\ LET cr == [IdleCall EXCEPT !.kind = "sendMessage"]
     IN call' = [call EXCEPT ![s] = IF ~isInitialized THEN EnterInitialize(cr)
                                                      ELSE AfterInitialize(cr)]
  /\ UNCHANGED <<chain, context, config, registry, session, remote>>

ConcurrentInit ==
  /\ config \in [assistantId : ConfigAssistantIds, threadId : ConfigThreadIds,
                  walletClient : {"wallet_cfg"}, toolEnvConfigs : {"env_cfg"}]
  /\ walletClient = OrDefault(config.walletClient, DefaultWalletClient)
  /\ toolEnvConfigs = OrDefault(config.toolEnvConfigs, EmptyToolEnvConfigs)
  /\ assistant = Null
  /\ thread = Null
  /\ isInitialized = FALSE
  /\ assistantId = OrDefault(config.assistantId, "")
  /\ threadID = OrDefault(config.threadId, "")
  /\ asstCreated = {}
  /\ threadsCreated = {}
  /\ registry = toolRegistry
  /\ nCalls = 0
  /\ call = [s \in ConcurrentSlots |-> IdleCall]
  /\ invocation = IdleInvocation
  /\ tokenDecimalsCache = EmptyCache
  /\ decimalsHistory = NoHistory

ConcurrentNext ==
  \/ \E s \in ConcurrentSlots : InvokeInitialize(s)
  \/ \E s \in ConcurrentSlots : InvokeSendMessage(s)
  \/ \E s \in ConcurrentSlots : InitStep(s)

ConcurrentSpec == ConcurrentInit /\ [][ConcurrentNext]_vars

\* the session life cycle for every wallet context and tool configuration mapping the
\* caller may supply or omit
ContextInit ==
  /\ config \in [assistantId : ConfigAssistantIds, threadId : ConfigThreadIds,
                  walletClient : ConfigWalletClients, toolEnvConfigs : ConfigToolEnvConfigs]
  /\ walletClient = OrDefault(config.walletClient, DefaultWalletClient)
  /\ toolEnvConfigs = OrDefault(config.toolEnvConfigs, EmptyToolEnvConfigs)
  /\ assistant = Null
  /\ thread = Null
  /\ isInitialized = FALSE
  /\ assistantId = OrDefault(config.assistantId, "")
  /\ threadID = OrDefault(config.threadId, "")
  /\ asstCreated = {}
  /\ threadsCreated = {}
  /\ registry = toolRegistry
  /\ nCalls = 0
  /\ call = [s \in Slots |-> IdleCall]
  /\ invocation = IdleInvocation
  /\ tokenDecimalsCache = EmptyCache
  /\ decimalsHistory = NoHistory

\* tool call lists whose arguments parse, so that every registered tool named is invoked
ContextLists ==
  {l \in ToolCallLists :
     \A i \in 1..Len(l) : l[i].name \in {"get_balance", "my_tool"} /\ l[i].arguments = "{}"}

ContextNext ==
  \/ \E s \in Slots : StartInitialize(s)
  \/ \E s \in Slots : StartSendMessage(s, TRUE)
  \/ \E s \in Slots : InitStep(s)
  \/ \E s \in Slots : RunStep(s, ContextLists)

ContextSpec == ContextInit /\ [][ContextNext]_vars

\* the registry on its own: any sequence of registerTool calls
RegistrySpec == RunInit /\ [][RegisterAnyTool]_vars

\* the balance tools: any sequence of handler invocations under dispatch
ToolNext ==
  \/ InvokeHandler
  \/ GetBalanceResponse
  \/ BalanceOfResponse
  \/ DecimalsResponse

ToolSpec == RunInit /\ [][ToolNext]_vars

\* the decimals cache: any sequence of fetchTokenDecimals calls, one after the other,
\* direct or through the token balance handler
DecimalsNext ==
  \/ FetchTokenDecimals
  \/ InvokeHandler
  \/ GetBalanceResponse
  \/ BalanceOfResponse
  \/ DecimalsResponse

DecimalsSpec == RunInit /\ [][DecimalsNext]_vars

\* every remote operation returns, every timer fires and every handler settles: a
\* call that can take a step eventually takes one
FairRunSpec == RunSpec /\ \A s \in Slots : WF_vars(RunStep(s, ToolCallLists))

(* ============================ properties ============================== *)

\* C2: once initialize() has completed successfully, the assistant identity and the
\* thread identity the session uses for run creation and run status retrieval
\* (this.assistantId, this.threadID) are both non-empty.
C2_IdentitiesNonEmpty ==
  isInitialized => (assistantId # "" /\ threadID # "")

\* C6: initialize() called on a session whose initialization has completed issues no
\* remote operation, returns at once and leaves the assistant identity, the thread
\* identity, the held assistant and thread and the flag unchanged.
C6_InitializeIdempotent ==
  [][\A s \in Slots :
       (isInitialized /\ nCalls' = nCalls + 1 /\ call'[s].kind = "initialize")
         => /\ call'[s].pc = "done"
            /\ call'[s].result = Void
            /\ call'[s].ops = NoOps
            /\ session' = session
            /\ remote' = remote]_vars

C6_Witness ==
  \E s \in Slots :
    /\ isInitialized /\ nCalls = 2
    /\ call[s].kind = "initialize" /\ call[s].pc = "done" /\ call[s].ops = NoOps
    /\ <<"info", "Agent already initialized">> \in call[s].roundLog

\* a call that has gone through initialize()'s thread resolution successfully
PerformedInitialize(c) ==
  /\ c.ops.asstRetrieve + c.ops.asstCreate > 0
  /\ \/ c.kind = "initialize" /\ c.pc = "done" /\ c.result = Void
     \/ c.kind = "sendMessage" /\ c.pc = "initialized"

\* C7: a session constructed with a thread identity retrieves that thread and never
\* creates one; a session constructed without one creates exactly one thread in a
\* successful initialize() and retrieves none.
C7_ThreadRetrievedOrCreatedOnce ==
  \A s \in Slots :
    LET c == call[s]
    IN IF config.threadId # Undefined
         THEN /\ c.ops.threadCreate = 0
              /\ threadsCreated = {}
              /\ c.pc = "retrieveThread" => c.req = config.threadId
              /\ PerformedInitialize(c) => (c.ops.threadRetrieve = 1 /\ thread = config.threadId)
         ELSE /\ c.ops.threadRetrieve = 0
              /\ PerformedInitialize(c) =>
                   (c.ops.threadCreate = 1 /\ Cardinality(threadsCreated) = 1
                    /\ thread \in threadsCreated)

C7_Witness ==
  \E s \in Slots :
    /\ config.threadId = Undefined
    /\ PerformedInitialize(call[s])
    /\ call[s].ops.threadCreate = 1 /\ thread = NewThreadId(0)

(* ------------------------- dispatch rounds ---------------------------- *)
\* the round of call c has collected its outputs (lines 199-214 have run)
RoundCollected(c) ==
  \/ c.pc = "submitToolOutputs"
  \/ c.pc = "dispatchReturned" /\ c.results # <<>>

SubmittedFor(c, id) == {j \in 1..Len(c.submitted) : c.submitted[j].tool_call_id = id}

\* C3: the number of outputs submitted in a round equals the number of requests whose
\* tool name was registered when the round was dispatched; a request naming an
\* unknown tool gets no submitted output and an error log entry.
C3_OutputsMatchRegistered ==
  \A s \in Slots :
    LET c == call[s]
        calls == c.run.calls
        known == {i \in 1..Len(calls) : calls[i].name \in c.ownKeys}
    IN RoundCollected(c) =>
         /\ Len(c.submitted) = Cardinality(known)
         /\ \A i \in 1..Len(calls) \ known :
              /\ SubmittedFor(c, calls[i].id) = {}
              /\ NotFoundLog(calls[i].name) \in c.roundLog

\* messages a conversion of a handler failure may carry
HandlerFailureMessages ==
  {ErrorMessage(o.v) : o \in {x \in HandlerOutcomes : x.t = "throw"}}
  \cup {JsonSyntaxError, NotAFunction}

\* C4: a handler that throws, or an argument payload that fails to parse, contributes
\* the output 'Error: <message>' under its own call identity; every sibling output is
\* submitted in the same batch; the failure never becomes the failure of sendMessage.
C4_FailureIsolated ==
  \A s \in Slots :
    LET c == call[s]
        calls == c.run.calls
    IN /\ c.result.kind = "error" => c.result.message \notin HandlerFailureMessages
       /\ c.pc = "allSettled" /\ (\E i \in 1..Len(c.results) : c.results[i].outcome.t = "throw")
            => c.result = NoResult
       /\ c.pc = "submitToolOutputs" =>
            \A i \in 1..Len(calls) :
              /\ c.results[i].outcome.t = "throw" =>
                   \E j \in 1..Len(c.submitted) :
                     c.submitted[j] = [tool_call_id |-> calls[i].id,
                                       output |-> "Error: " \o ErrorMessage(c.results[i].outcome.v)]
              /\ (calls[i].name \in c.ownKeys /\ JsonParseThrows(calls[i].arguments)) =>
                   \E j \in 1..Len(c.submitted) :
                     c.submitted[j] = [tool_call_id |-> calls[i].id,
                                       output |-> "Error: " \o JsonSyntaxError]
              /\ c.results[i].outcome.t = "return" =>
                   \E j \in 1..Len(c.submitted) :
                     /\ c.submitted[j].tool_call_id = calls[i].id
                     /\ c.submitted[j].output = c.results[i].output

C4_Witness ==
  \E s \in Slots :
    /\ call[s].pc = "submitToolOutputs"
    /\ Len(call[s].submitted) = 2
    /\ \E i, k \in 1..Len(call[s].results) :
         /\ call[s].results[i].outcome = [t |-> "throw", v |-> Err("boom")]
         /\ call[s].results[k].outcome.t = "return"

\* C5: for a request with identity X whose tool is registered, a handler returning V
\* yields the submitted output String(V) under X and a handler throwing an error with
\* message M yields 'Error: M' under X; identities are submitted as received.
C5_OutputRoundTrip ==
  \A s \in Slots :
    LET c == call[s]
        calls == c.run.calls
        Out(i, text) == \E j \in 1..Len(c.submitted) :
                          c.submitted[j] = [tool_call_id |-> calls[i].id, output |-> text]
    IN c.pc = "submitToolOutputs" =>
         /\ \A i \in 1..Len(calls) :
              LET o == c.results[i].outcome
              IN /\ o = [t |-> "return", v |-> Str("1.5")] => Out(i, "1.5")
                 /\ o = [t |-> "return", v |-> Num(15)] => Out(i, "15")
                 /\ o = [t |-> "throw", v |-> Err("boom")] => Out(i, "Error: boom")
                 /\ o.t # "none" => Cardinality(SubmittedFor(c, calls[i].id)) = 1
         /\ \A j \in 1..Len(c.submitted) :
              \E i \in 1..Len(calls) : c.submitted[j].tool_call_id = calls[i].id

C5_Witness ==
  \E s \in Slots :
    /\ call[s].pc = "submitToolOutputs"
    /\ \E i, k \in 1..Len(call[s].results) :
         /\ call[s].results[i].outcome = [t |-> "return", v |-> Num(15)]
         /\ call[s].results[k].outcome = [t |-> "throw", v |-> Err("boom")]
         /\ call[s].submitted[2].tool_call_id = "call_1"

(* --------------------------- run driver ------------------------------- *)
\* C1: every sendMessage invocation eventually returns an answer or fails, whatever
\* tool call requests the remote run reports.
C1_SendMessageTerminates ==
  \A s \in Slots :
    (call[s].kind = "sendMessage" /\ call[s].pc # "done") ~> (call[s].pc = "done")

Observed == <<"queued", "in_progress", "completed">>

\* the listed messages start with an assistant message whose first block is text
IsAssistantText(data) ==
  /\ Len(data) > 0
  /\ data[1].role = "assistant"
  /\ Len(data[1].content) > 0
  /\ data[1].content[1].type = "text"

\* C8 as stated: a run observed queued, in_progress, completed yields a text answer.
C8_AlwaysYieldsText ==
  \A s \in Slots :
    (call[s].trace = Observed /\ call[s].pc = "done") => call[s].result.kind = "text"

\* C8 (amended): for a run observed queued, then in_progress, then completed, no run
\* status is fetched after completed was observed, every re-fetch was preceded by a
\* wait, the messages are listed once, and sendMessage returns exactly the text of the
\* latest message when the listing succeeds with an assistant text message first,
\* and fails otherwise.
C8_PollingEndsAtCompleted ==
  \A s \in Slots :
    LET c == call[s]
    IN /\ c.ops.runRetrieve <= c.ops.wait
       /\ c.pc = "retrieveRun" => c.ops.wait = c.ops.runRetrieve
       /\ c.trace = Observed =>
            /\ c.ops.runRetrieve = 2 /\ c.ops.wait = 2
            /\ c.ops.submit = 0
            /\ c.ops.list <= 1
            /\ c.pc = "done" =>
                 /\ c.ops.list = 1
                 /\ IF c.listedOk /\ IsAssistantText(c.listed)
                      THEN c.result = Text(c.listed[1].content[1].value)
                      ELSE c.result.kind = "error"

C8_Witness ==
  \E s \in Slots :
    /\ call[s].trace = Observed /\ call[s].pc = "done"
    /\ call[s].result = Text("Your balance is 1.5 MON")

\* C9: when the run is observed completed, sendMessage returns the text of the first
\* content block of the most recent message if that message is the assistant's and
\* the block is text, and fails with 'Unexpected response format' for every other
\* shape of the listing.
C9_FormatErrorForOtherShapes ==
  \A s \in Slots :
    LET c == call[s]
    IN (c.pc = "done" /\ c.listedOk) =>
         IF IsAssistantText(c.listed)
           THEN c.result = Text(c.listed[1].content[1].value)
           ELSE c.result = Failure(FormatError)

\* C10: when the run ends failed or in another terminal status that is not completed,
\* sendMessage fails, the thread's messages are not fetched, and no run but the one
\* is created; no sendMessage creates more than one run.
C10_FailedRunFailsOnce ==
  \A s \in Slots :
    LET c == call[s]
    IN /\ c.ops.runCreate <= 1
       /\ c.run.status \in TerminalStatuses \ {"completed"} =>
            /\ c.ops.list = 0
            /\ c.ops.runCreate = 1
            /\ c.pc \in {"createRunReturned", "performRun", "dispatchReturned", "done"}
            /\ c.pc = "done" => c.result = Failure(FormatError)

C10_Witness ==
  \E s \in Slots :
    /\ call[s].pc = "done" /\ call[s].run.status = "expired"
    /\ call[s].rounds = 1
    /\ call[s].result.kind = "error"

(* ------------------------ dispatch rounds, continued ------------------- *)
\* C11: in a dispatch round (request identities pairwise distinct) each request
\* identity appears at most once among the submitted outputs and either has a submitted
\* output or was dropped with the error log entry naming the missing tool; no identity
\* absent from the request is submitted.
C11_IdentitiesAtMostOnce ==
  \A s \in Slots :
    LET c == call[s]
        calls == c.run.calls
    IN RoundCollected(c) =>
         /\ \A i \in 1..Len(calls) :
              /\ Cardinality(SubmittedFor(c, calls[i].id)) <= 1
              /\ \/ SubmittedFor(c, calls[i].id) # {}
                 \/ NotFoundLog(calls[i].name) \in c.roundLog
         /\ \A j \in 1..Len(c.submitted) :
              \E i \in 1..Len(calls) : c.submitted[j].tool_call_id = calls[i].id

C11_Witness ==
  \E s \in Slots :
    /\ call[s].pc = "submitToolOutputs"
    /\ Len(call[s].run.calls) = 2
    /\ Len(call[s].submitted) = 1
    /\ call[s].submitted[1].tool_call_id = "call_1"
    /\ NotFoundLog("my_tool") \in call[s].roundLog

(* ------------------------------ registry ------------------------------ *)
\* C12: after registerTool(n, t), getTool(n) and the listing initTools() both give t
\* for n (last write wins) and the entries under other names are unchanged; getTool(n)
\* for a name that was never registered gives the not-found value (undefined).
C12_RegistryLastWriteWins ==
  [][/\ \A n \in RegistryNames, t \in Tools :
          registry' = Registered(registry, n, t) =>
            /\ getTool(n)' = t
            /\ n \in DOMAIN initTools' /\ initTools'[n] = t
            /\ \A m \in DOMAIN registry \ {n} :
                 m \in DOMAIN initTools' /\ initTools'[m] = registry[m] /\ getTool(m)' = registry[m]
     /\ \A n \in RegistryNames \ DOMAIN registry' : getTool(n)' = Undefined]_vars

(* --------------------------- initialization --------------------------- *)
\* C13: the initialization flag is set only after the assistant resolution and the
\* thread resolution have both succeeded; when assistant creation or thread
\* creation/retrieval fails, initialize() fails with that failure and the flag is still
\* false; a failed assistant retrieval alone is no failure but leads to a creation.
C13_FlagOnlyAfterBothResolutions ==
  \A s \in Slots :
    LET c == call[s]
    IN /\ isInitialized => (~Falsy(assistant) /\ ~Falsy(thread))
       /\ c.pc \in {"retrieveAssistant", "createAssistant", "createThread", "retrieveThread"}
            => ~isInitialized
       /\ (c.kind = "initialize" /\ c.pc = "done") =>
            IF c.result = Void
              THEN isInitialized
              ELSE /\ c.result = Failure(RemoteError)
                   /\ ~isInitialized
                   /\ c.ops.asstCreate + c.ops.threadCreate + c.ops.threadRetrieve >= 1
       /\ (c.pc = "done" /\ c.ops.asstRetrieve = 1 /\ c.ops.asstCreate = 0
            /\ c.ops.threadCreate + c.ops.threadRetrieve = 1 /\ c.result.kind = "error"
            /\ c.ops.msgCreate = 0)
            => ~Falsy(assistant)

C13_Witness ==
  \E s \in Slots :
    /\ call[s].kind = "initialize" /\ call[s].pc = "done"
    /\ call[s].result = Failure(RemoteError)
    /\ call[s].ops.asstRetrieve = 1 /\ call[s].ops.asstCreate = 1
    /\ call[s].ops.threadCreate = 1
    /\ ~isInitialized /\ assistant = NewAssistantId(0)

(* ----------------------- order of remote operations ------------------- *)
\* positions at which a call awaits a remote operation
AwaitingRemote ==
  {"retrieveAssistant", "createAssistant", "createThread", "retrieveThread",
   "appendMessage", "createRun", "retrieveRun", "submitToolOutputs", "submitPoll",
   "listMessages"}

\* within one sendMessage: initialization is complete before the message is appended,
\* the append precedes the run creation, the run creation precedes every poll,
\* submission and listing, and nothing is issued after the listing
OperationsInOrder(c, d) ==
  d.kind = "sendMessage" =>
    /\ d.ops.msgCreate > 0 => isInitialized'
    /\ d.ops.msgCreate <= 1
    /\ d.ops.runCreate <= d.ops.msgCreate
    /\ d.ops.wait + d.ops.runRetrieve + d.ops.submit + d.ops.list > 0 => d.ops.runCreate = 1
    /\ d.ops.list <= 1
    /\ (c.pc \notin {"idle", "done"} /\ c.ops.list = 1) => d.ops = c.ops

\* the step ends the call with a failure and issues no further remote operation
Propagates(c, d) == d.pc = "done" /\ d.result.kind = "error" /\ d.ops = c.ops

\* the step is the rejection of the call's assistants.retrieve (caught at line 53)
RetrievalRejected(c, d) ==
  /\ c.kind = "sendMessage" /\ c.pc = "retrieveAssistant"
  /\ d.pc # "retrieveAssistant" /\ assistant' = assistant

\* C14 as stated: the operations are in order and the failure of any remote operation,
\* the assistant retrieval included, propagates with no later operation issued.
C14_AnyFailurePropagates ==
  [][\A s \in Slots :
       LET c == call[s]
           d == call'[s]
       IN /\ OperationsInOrder(c, d)
          /\ RetrievalRejected(c, d) => Propagates(c, d)]_vars

\* C14 (amended): the operations are in order; a call that ends in a failure ends in
\* the step in which the awaited operation failed and issues no later operation; a
\* failed assistant retrieval is the one failure that does not end the call: it is
\* followed by the creation of an assistant.
C14_OperationsInOrder ==
  [][\A s \in Slots :
       LET c == call[s]
           d == call'[s]
       IN /\ OperationsInOrder(c, d)
          /\ (c.pc \in AwaitingRemote /\ d.pc = "done" /\ d.result.kind = "error")
               => (Propagates(c, d) /\ (c.pc # "listMessages" => d.result = Failure(RemoteError)))
          /\ (c.pc \in AwaitingRemote \ {"retrieveAssistant"} /\ d.pc \notin {"done", c.pc})
               => d.result = NoResult
          /\ RetrievalRejected(c, d) =>
               (d.pc = "createAssistant" /\ d.ops = Bump(c.ops, "asstCreate"))]_vars

C14_Witness ==
  \E s \in Slots :
    /\ call[s].kind = "sendMessage" /\ call[s].pc = "done"
    /\ call[s].result = Failure(RemoteError)
    /\ call[s].ops.asstRetrieve = 1 /\ call[s].ops.asstCreate = 1
    /\ call[s].ops.msgCreate = 1 /\ call[s].ops.runCreate = 0

(* ---------------------------- balance tools --------------------------- *)
\* C15: a token-balance call whose tokenName matches no entry of the token table
\* (compared case-insensitively), dispatched with a resolvable wallet address, gets the
\* submitted output 'Error: Token "<tokenName>" not found. Available tokens: WMON, MONAI'.
C15_TokenNotFoundOutput ==
  (/\ invocation.pc = "done"
   /\ invocation.name = "get_token_balance"
   /\ ~Falsy(OrDefault(invocation.wallet, invocation.account))
   /\ ~Falsy(invocation.tokenName)
   /\ \A i \in 1..Len(TokenKeys) : ToLowerCase(TokenKeys[i]) # ToLowerCase(invocation.tokenName))
  => invocation.output =
       "Error: Token \"" \o invocation.tokenName \o "\" not found. Available tokens: WMON, MONAI"

\* C16: for both balance tools every blockchain read of the balance queries the
\* explicit wallet argument when one is given and the session wallet's account address
\* otherwise; when neither is available the handler fails with the configuration error
\* and no read is issued, and the dispatcher turns that failure into an 'Error: ...'
\* output.
C16_WalletFallback ==
  LET t == invocation
      expected == IF ~Falsy(t.wallet) THEN t.wallet ELSE t.account
  IN /\ \A i \in 1..Len(t.reads) :
          t.reads[i].op \in {"getBalance", "balanceOf"} =>
            (t.reads[i].target = expected /\ ~Falsy(expected))
     /\ (t.pc # "idle" /\ Falsy(expected)) =>
          /\ t.pc = "done"
          /\ t.reads = <<>>
          /\ t.outcome.t = "throw"
          /\ t.outcome.v.s \in {"Failed to get balance: Error: " \o NoWalletError,
                               "Failed to get token balance: Error: " \o NoWalletError}
          /\ t.output = "Error: " \o t.outcome.v.s

C16_Witness ==
  /\ invocation.pc = "done" /\ invocation.name = "get_balance"
  /\ invocation.wallet = Undefined /\ invocation.account = "0x5E55"
  /\ invocation.reads = <<[op |-> "getBalance", target |-> "0x5E55"]>>
  /\ invocation.output = "0.0000000000000015"

(* ------------------------- session under interleaving ----------------- *)
\* C17: under every sequence and interleaving of initialize() and sendMessage() calls
\* the initialization flag never goes from true to false, and once it is true the
\* assistant identity, the thread identity and the assistant and thread the session
\* holds never change again.
C17_InitializedSessionFrozen ==
  [][isInitialized =>
       /\ isInitialized'
       /\ assistant' = assistant /\ assistantId' = assistantId
       /\ thread' = thread /\ threadID' = threadID]_vars

(* ----------------------- dispatch rounds: fan-out ---------------------- *)
\* C18: while a round awaits its handlers every invocation of the round has already
\* been started and nothing has been submitted for the round; the submission is made
\* only when every invocation has settled, once per round, and holds every output the
\* round produced.
C18_SubmitAfterAllSettled ==
  \A s \in Slots :
    LET c == call[s]
        calls == c.run.calls
        produced == {i \in 1..Len(c.results) : HasOutput(c.results[i])}
    IN /\ c.ops.submit <= c.rounds + 1
       /\ c.pc = "allSettled" =>
            /\ Len(c.results) = Len(calls)
            /\ c.ops.submit = c.rounds
            /\ c.submitted = <<>>
            /\ \A i \in 1..Len(calls) :
                 (calls[i].name \in c.ownKeys /\ ~JsonParseThrows(calls[i].arguments))
                   => c.results[i].handler \in Tools
       /\ c.pc = "submitToolOutputs" =>
            /\ c.ops.submit = c.rounds + 1
            /\ \A i \in 1..Len(c.results) : c.results[i].status # "pending"
            /\ Len(c.submitted) = Cardinality(produced)
            /\ \A i \in produced :
                 \E j \in 1..Len(c.submitted) :
                   c.submitted[j] = [tool_call_id |-> calls[i].id, output |-> c.results[i].output]

C18_Witness ==
  \E s \in Slots :
    /\ call[s].pc = "submitToolOutputs"
    /\ Len(call[s].results) = 2 /\ Len(call[s].submitted) = 2
    /\ \A i \in 1..2 : call[s].results[i].handler \in Tools
    /\ call[s].results[1].outcome.t = "throw" /\ call[s].results[2].outcome.t = "return"
    /\ call[s].rounds = 1 /\ call[s].ops.submit = 2

(* ---------------------- dispatch rounds: no output --------------------- *)
\* handleRunToolCalls returns in this step (to the await of line 230) without submitting
ReturnsWithoutSubmitting(c, d) ==
  c.pc \in {"performRun", "allSettled"} /\ d.pc = "dispatchReturned"

\* C19: a dispatch round that produces no output (every requested tool unknown, or the
\* tool call list missing or empty) submits nothing, invokes no handler for an unknown
\* tool, and returns the very run it was given, still in requires_action.
C19_NoOutputReturnsSameRun ==
  [][\A s \in Slots :
       LET c == call[s]
           d == call'[s]
           calls == c.run.calls
       IN /\ (c.pc = "performRun" /\ c.run.status = "requires_action"
              /\ (~c.run.hasCalls \/ Len(calls) = 0) /\ d # c)
               => ReturnsWithoutSubmitting(c, d)
          /\ (c.pc = "performRun" /\ d.pc = "allSettled") =>
               \A i \in 1..Len(calls) :
                 Falsy(Lookup(registry, calls[i].name)) =>
                   (d.results[i].handler = "none" /\ ~HasOutput(d.results[i]))
          /\ (c.pc = "allSettled" /\ d.pc # "allSettled"
              /\ \A i \in 1..Len(c.results) : ~HasOutput(c.results[i]))
               => ReturnsWithoutSubmitting(c, d)
          /\ ReturnsWithoutSubmitting(c, d) =>
               /\ d.run = c.run
               /\ d.run.status = "requires_action"
               /\ d.ops = c.ops
               /\ d.submitted = <<>>
               /\ \A i \in 1..Len(d.results) : d.results[i].handler = "none"]_vars

C19_Witness ==
  \E s \in Slots :
    /\ call[s].pc = "dispatchReturned"
    /\ Len(call[s].results) = 2
    /\ \A i \in 1..2 : call[s].run.calls[i].name = "my_tool" /\ ~HasOutput(call[s].results[i])
    /\ call[s].run.status = "requires_action"
    /\ call[s].ops.submit = 0
    /\ NoValidOutputsLog(call[s].run.id) \in call[s].roundLog

(* ------------------ dispatch rounds: registry lookups ------------------ *)
\* the tool line 176 finds for a call under the registry reg: "none" when the call is
\* unknown, not callable, or its arguments do not parse
ResolvedHandler(reg, tc) ==
  LET toolConfig == Lookup(reg, tc.name)
  IN IF toolConfig \in Tools /\ ~JsonParseThrows(tc.arguments) THEN toolConfig ELSE "none"

\* C20: every lookup of a dispatch round sees the registry as it is when the round
\* starts (the lookups of lines 171-184 all run before the first await resumes), so a
\* registerTool call made while the round's handlers are pending changes neither which
\* requested tools are found or unknown nor the handler a found tool resolved to.
C20_LookupsSeeOneRegistry ==
  [][\A s \in Slots :
       LET c == call[s]
           d == call'[s]
           calls == c.run.calls
       IN /\ (c.pc = "performRun" /\ d.pc = "allSettled") =>
               /\ d.ownKeys = DOMAIN registry
               /\ \A i \in 1..Len(calls) :
                    /\ d.results[i].handler = ResolvedHandler(registry, calls[i])
                    /\ Falsy(Lookup(registry, calls[i].name)) <=>
                         (d.results[i].status = "fulfilled" /\ ~d.results[i].hasValue)
          /\ (c.pc = "allSettled" /\ d.pc \in {"allSettled", "submitToolOutputs",
                                               "dispatchReturned"}) =>
               /\ d.ownKeys = c.ownKeys
               /\ d.run = c.run
               /\ Len(d.results) = Len(c.results)
               /\ \A i \in 1..Len(c.results) :
                    /\ d.results[i].handler = c.results[i].handler
                    /\ c.results[i].status # "pending" => d.results[i] = c.results[i]
          /\ (c.pc = "allSettled" /\ d.pc = "submitToolOutputs") =>
               {d.submitted[k].tool_call_id : k \in 1..Len(d.submitted)}
                 = {calls[i].id : i \in {j \in 1..Len(calls) :
                                          calls[j].name \in c.ownKeys \cup ObjectPrototypeKeys}}]_vars

\* a round is submitted after the registry changed under it: my_tool was unknown when the
\* round started and is registered now, get_balance resolved to the built-in tool and is
\* overwritten now
C20_Witness ==
  \E s \in Slots :
    LET c == call[s]
    IN /\ c.pc = "submitToolOutputs"
       /\ "my_tool" \in DOMAIN registry \ c.ownKeys
       /\ Lookup(registry, "get_balance") = "customTool"
       /\ Len(c.results) = 2
       /\ c.run.calls[1].name = "my_tool" /\ ~HasOutput(c.results[1])
       /\ c.run.calls[2].name = "get_balance" /\ c.results[2].handler = "getBalanceTool"
       /\ Len(c.submitted) = 1

(* -------------------- one thread per sendMessage ----------------------- *)
\* C21: in every sendMessage invocation the thread identity used to create the run, to
\* re-fetch its status and to submit tool outputs is the identity of the thread the
\* invocation appended the user message to and reads the answer from (this.thread.id),
\* and the assistant identity used for the run is that of the resolved assistant.
C21_RunTargetsMessageThread ==
  \A s \in Slots :
    LET c == call[s]
    IN c.kind = "sendMessage" =>
         /\ c.pc \in {"appendMessage", "createRun", "retrieveRun", "submitToolOutputs",
                      "listMessages"} => c.req = thread
         /\ c.pc = "createRun" => c.reqAsst = assistant

(* --------------------- assistants created per session ------------------ *)
\* C22: across any sequence of initialize() calls on one session, repeated calls after a
\* failed thread resolution included, an assistant is created only in a call whose own
\* retrieval by the configured identity was attempted and failed, and at most one
\* assistant is ever created for the session.
C22_AssistantCreatedOnceAfterFailedRetrieval ==
  /\ Cardinality(asstCreated) <= 1
  /\ \A s \in Slots : call[s].ops.asstCreate <= call[s].ops.asstRetrieve

(* ------------------- interleaved calls: one thread --------------------- *)
\* C23: for a session constructed without a thread identity, under every interleaving of
\* sendMessage() and initialize() calls started before initialization has completed, at
\* most one remote thread and at most one assistant are created, and every message
\* append of the session targets that single thread.
C23_OneThreadUnderInterleaving ==
  Falsy(config.threadId) =>
    /\ Cardinality(threadsCreated) <= 1
    /\ Cardinality(asstCreated) <= 1
    /\ \A s \in ConcurrentSlots :
         call[s].pc = "appendMessage" => threadsCreated = {call[s].req}

(* ------------------- declared names and the registry ------------------- *)
\* C24: every tool name declared to a newly created assistant resolves to a registered
\* tool in a later dispatch round under the same registry: for every registered tool, a
\* request naming the tool as its definition declares it is dispatched to that tool and
\* is never dropped as unknown.
C24_DeclaredNamesResolve ==
  /\ \A n \in DeclaredNames(initTools) : Lookup(registry, n) \in Tools
  /\ \A k \in DOMAIN registry : Lookup(registry, DefinitionName(registry[k])) = registry[k]

(* ------------------ wallet context and configuration ------------------- *)
\* C25: every handler invocation of every dispatch round receives the session's wallet
\* context and tool configuration mapping as fixed at construction (the supplied value,
\* or the default the constructor substitutes when none is supplied), the same for all
\* handlers of a round, and no step of initialize, sendMessage or dispatch changes them.
C25_ContextPassedUnmodified ==
  /\ walletClient = OrDefault(config.walletClient, DefaultWalletClient)
  /\ toolEnvConfigs = OrDefault(config.toolEnvConfigs, EmptyToolEnvConfigs)
  /\ \A s \in Slots : \A i \in 1..Len(call[s].results) :
       LET r == call[s].results[i]
       IN IF r.handler \in Tools
            THEN r.received = <<OrDefault(config.walletClient, DefaultWalletClient),
                                OrDefault(config.toolEnvConfigs, EmptyToolEnvConfigs)>>
            ELSE r.received = NotInvoked

\* a round in which two handlers were invoked, on a session constructed with a wallet
\* context and without a tool configuration mapping, and both have settled
C25_Witness ==
  \E s \in Slots :
    /\ config.walletClient = "wallet_cfg" /\ config.toolEnvConfigs = Undefined
    /\ call[s].pc = "submitToolOutputs"
    /\ Len(call[s].results) = 2
    /\ call[s].results[1].handler = "getBalanceTool"
    /\ call[s].results[2].handler = "getBalanceTool"
    /\ \A i \in 1..2 : call[s].results[i].received = <<"wallet_cfg", "{}">>
    /\ isInitialized

(* --------------------------- decimals cache ---------------------------- *)
ReadsFor(token) ==
  Cardinality({i \in 1..Len(decimalsHistory.reads) : decimalsHistory.reads[i] = token})
ReturnedFor(token) == {p[2] : p \in {q \in decimalsHistory.returned : q[1] = token}}

\* C26: for a non-native token, across any sequence of sequential fetchTokenDecimals
\* calls at most one decimals read is issued for the token and every call returns what
\* the first call returned (the value read, or 18 when that read failed); for the native
\* token or the zero address the result is 18, no read is issued and no cache entry is
\* written.
C26_DecimalsReadOnce ==
  \A token \in FetchTokens :
    IF IsNative(token)
      THEN /\ ReadsFor(token) = 0
           /\ ReturnedFor(token) \subseteq {18}
           /\ token \notin DOMAIN tokenDecimalsCache
      ELSE /\ ReadsFor(token) <= 1
           /\ Cardinality(ReturnedFor(token)) <= 1
           /\ ReturnedFor(token) # {} => ReadsFor(token) = 1
           /\ token \in decimalsHistory.failed => ReturnedFor(token) = {18}
           /\ token \in DOMAIN tokenDecimalsCache =>
                ReturnedFor(token) = {tokenDecimalsCache[token]}

\* a later call for a token whose first read gave 3 decimals returns 3 without a read,
\* after the zero address was asked for
C26_Witness ==
  /\ invocation.pc = "done" /\ invocation.name = "fetchTokenDecimals"
  /\ invocation.token = TOKEN["WMON"]
  /\ invocation.reads = <<>>
  /\ invocation.outcome.v = Num(3)
  /\ ReadsFor(TOKEN["WMON"]) = 1
  /\ <<ZeroAddress, 18>> \in decimalsHistory.returned
  /\ TOKEN["MONAI"] \in decimalsHistory.failed

====
